---- MODULE Spec2Model ----
(***************************************************************************)
(* MovieQuest: the poster text-removal pipeline.                           *)
(*   image_processor.py : get_reader, detect_and_blur_text,                *)
(*                        save_processed_image                             *)
(*   app.py             : get_processed_poster (route /processed-poster)   *)
(* Poster requests run one per thread; each action below is one step of a  *)
(* request between two accesses to shared state (the cache directory, the  *)
(* module-global OCR reader) or to the network.                            *)
(***************************************************************************)
EXTENDS Integers, Sequences, FiniteSets, Bags, TLC

\* ------------------------------------------------------------------ bounds
\* Concurrent poster requests (threads of the server).
NReq == 2
\* Longest detection list the OCR engine returns in SpecMask.
MaxDet == 2
\* Poster size in SpecMask (wide enough for a padded box that touches no edge).
PosterW == 13
PosterH == 2
\* Poster size in Spec.
ThumbW == 1
ThumbH == 1
\* Detector coordinates are fractions with this denominator (EasyOCR returns floats).
CoordDen == 2
\* Clients (browsers with a session of their own).
NClients == 2
\* A game's /movie-question/next requests are followed up to this question_count.
MaxCount == 11
\* /game-over requests followed, over all clients.
MaxCalls == 3

\* ------------------------------------------------------- program constants
\* image_processor.py:68  `if confidence > 0.3`, in percent.
Threshold == 30
\* image_processor.py:78  `padding = 5`.
padding == 5
\* app.py:124,168  `question_count >= 10`.
GameLength == 10
\* app.py:159  `session["score"] = session.get("score", 0) + 10`.
ScoreStep == 10
\* app.py:187  get_top_scores(5).
limit == 5

Procs == 1..NReq
URLs == {"u1", "u2"}
\* app.py:86  poster_id = hashlib.md5(poster_url.encode()).hexdigest()
Digest(u) == "md5_" \o u
Keys == {Digest(u) : u \in URLs}
\* "movie_q" not in session
NoQuestion == "none"

Min2(a, b) == IF a <= b THEN a ELSE b
Max2(a, b) == IF a >= b THEN a ELSE b
MinOf(S) == CHOOSE m \in S : \A x \in S : m <= x
MaxOf(S) == CHOOSE m \in S : \A x \in S : m >= x

\* ------------------------------------------------------------------ rasters
\* A raster is [w, h, px]: px maps each pixel <<x, y>> to its three channels.
Pixels(w, h) == (0..(w - 1)) \X (0..(h - 1))
\* Python None where a raster is expected.
NoRaster == [w |-> 0, h |-> 0, px |-> [q \in Pixels(0, 0) |-> <<"", "", "">>]]
\* What the remote serves: the poster of url u, decoded by PIL (RGB order).
PosterRGB(u, size) ==
    [w |-> size[1], h |-> size[2], px |-> [q \in Pixels(size[1], size[2]) |-> <<u, "g", "b">>]]
\* The body of an error response that is an image (a placeholder), decoded.
PlaceholderRGB(size) ==
    [w |-> size[1], h |-> size[2], px |-> [q \in Pixels(size[1], size[2]) |-> <<"x", "g", "b">>]]
\* cv2.cvtColor(np.array(img_pil), cv2.COLOR_RGB2BGR)
cvtColor(r) ==
    [r EXCEPT !.px = [q \in DOMAIN r.px |-> <<r.px[q][3], r.px[q][2], r.px[q][1]>>]]
\* np.zeros(img.shape[:2], dtype=np.uint8)
Zeros(w, h) == [q \in Pixels(w, h) |-> 0]
NoMask == Zeros(0, 0)

\* --------------------------------------------------------------- responses
\* requests.get: raises (timeout, connection error), or returns a status and a body.
NoResponse == [exc |-> FALSE, status |-> "none", body |-> "none"]
Responses ==
    { [exc |-> TRUE, status |-> "none", body |-> "none"],
      [exc |-> FALSE, status |-> "ok", body |-> "poster"],
      [exc |-> FALSE, status |-> "ok", body |-> "garbage"],
      [exc |-> FALSE, status |-> "error", body |-> "placeholder"],
      [exc |-> FALSE, status |-> "error", body |-> "garbage"] }
\* Image.open(BytesIO(response.content)) succeeds
Decodable(r) == ~r.exc /\ r.body \in {"poster", "placeholder"}
\* Image.open(BytesIO(response.content)), then cvtColor
Decode(r, u, size) ==
    cvtColor(IF r.body = "poster" THEN PosterRGB(u, size) ELSE PlaceholderRGB(size))

\* ------------------------------------------------------------ mask builder
\* np.array(bbox).astype(int): truncation toward zero
AsInt(c) == IF c >= 0 THEN c \div CoordDen ELSE -((-c) \div CoordDen)

\* The comparison of line 68 with >= for >.
AtLeast(confidence, t) == confidence >= t

\* image_processor.py:68
Above(confidence, t) == confidence > t

\* image_processor.py:71-82: the rectangle handed to cv2.rectangle
Region(bbox, w, h) ==
    LET xs == {AsInt(bbox[i][1]) : i \in 1..4}
        ys == {AsInt(bbox[i][2]) : i \in 1..4}
        x_min == Max2(0, MinOf(xs))
        y_min == Max2(0, MinOf(ys))
        x_max == Min2(w, MaxOf(xs))
        y_max == Min2(h, MaxOf(ys))
    IN  [x_min |-> Max2(0, x_min - padding),
         y_min |-> Max2(0, y_min - padding),
         x_max |-> Min2(w, x_max + padding),
         y_max |-> Min2(h, y_max + padding)]

\* The pixels cv2.rectangle(mask, pt1, pt2, 255, -1) fills: the rectangle spanned
\* by the two corners, both included, in either order, clipped to the image.
Filled(r, q) ==
    /\ Min2(r.x_min, r.x_max) <= q[1] /\ q[1] <= Max2(r.x_min, r.x_max)
    /\ Min2(r.y_min, r.y_max) <= q[2] /\ q[2] <= Max2(r.y_min, r.y_max)

\* image_processor.py:85
Rectangle(mask, r) == [q \in DOMAIN mask |-> IF Filled(r, q) THEN 255 ELSE mask[q]]

\* MarkDetection counting a detection only when its rectangle marks a pixel that
\* no earlier detection marked.
MarkDetectionNewPixels(st, d, w, h) ==
    IF Above(d.confidence, Threshold)
    THEN [mask |-> Rectangle(st.mask, Region(d.bbox, w, h)),
          inpaint_count |-> IF Rectangle(st.mask, Region(d.bbox, w, h)) # st.mask
                            THEN st.inpaint_count + 1 ELSE st.inpaint_count,
          regions |-> Append(st.regions, Region(d.bbox, w, h))]
    ELSE st

\* image_processor.py:64-87: one iteration of the loop over the detections
MarkDetection(st, d, w, h) ==
    IF Above(d.confidence, Threshold)
    THEN [mask |-> Rectangle(st.mask, Region(d.bbox, w, h)),
          inpaint_count |-> st.inpaint_count + 1,
          regions |-> Append(st.regions, Region(d.bbox, w, h))]
    ELSE st

\* image_processor.py:49,63-87: the whole loop
RECURSIVE MarkAll(_, _, _, _)
MarkAll(st, dets, w, h) ==
    IF dets = <<>> THEN st
    ELSE MarkAll(MarkDetection(st, Head(dets), w, h), Tail(dets), w, h)

BuildMask(dets, w, h) ==
    MarkAll([mask |-> Zeros(w, h), inpaint_count |-> 0, regions |-> <<>>], dets, w, h)

\* cv2.inpaint(img, mask, inpaintRadius=7, flags=cv2.INPAINT_TELEA): every masked
\* pixel is reconstructed, every other pixel is passed through.
inpaint(img, mask) ==
    [img EXCEPT !.px = [q \in DOMAIN img.px |->
        IF mask[q] # 0 THEN <<"fill", "fill", "fill">> ELSE img.px[q]]]

\* cv2.imwrite(output_path, image_array): the array is read as BGR, so the file
\* holds the image with its channels back in RGB order.
imwrite(image_array) == cvtColor(image_array)

\* ------------------------------------------------------- detector outputs
\* A detection is (bbox, text, confidence); the text is only printed. bbox is four
\* points, coordinates in units of 1/CoordDen pixel; confidence is in percent.
Det(bbox, confidence) == [bbox |-> bbox, confidence |-> confidence]
\* An axis-aligned box (tl, tr, br, bl), or the diamond inscribed in it (rotated text).
Quad(xa, xb, ya, yb, rot) ==
    IF rot = 0
    THEN << <<xa, ya>>, <<xb, ya>>, <<xb, yb>>, <<xa, yb>> >>
    ELSE << <<xa, (ya + yb) \div 2>>, <<(xa + xb) \div 2, ya>>,
            <<xb, (ya + yb) \div 2>>, <<(xa + xb) \div 2, yb>> >>
\* Left of the image, near its left edge, in the middle, near its right edge, right
\* of the image.
CoordsX == {-17, 5, 13, 21, 41}
\* Above the image, inside it.
CoordsY == {-17, 1}
Spans(S) == {s \in S \X S : s[1] <= s[2]}
\* Every horizontal case on the first row, every vertical case in the middle
\* column, and two rotated boxes.
MaskQuads ==
    {Quad(x[1], x[2], 1, 1, 0) : x \in Spans(CoordsX)}
        \cup {Quad(13, 13, y[1], y[2], 0) : y \in Spans(CoordsY)}
        \cup {Quad(5, 21, -17, 1, 1), Quad(-17, 13, 1, 1, 1)}
\* Every box with a high confidence; three of them at the threshold and just above.
MaskDets ==
    {Det(b, 82) : b \in MaskQuads}
        \cup {Det(b, c) : b \in {Quad(13, 13, 1, 1, 0), Quad(5, 21, -17, 1, 1),
                                 Quad(-17, -17, 1, 1, 0)},
                          c \in {Threshold, Threshold + 1}}
SeqsUpTo(S, n) == UNION { [1..k -> S] : k \in 0..n }
\* In Spec the poster of u1 carries a title and the poster of u2 carries no text.
ThumbWorlds ==
    { [size |-> <<ThumbW, ThumbH>>,
       ocr |-> [u \in URLs |-> IF u = "u1" THEN <<Det(Quad(0, 0, 0, 0, 0), 82)>> ELSE <<>>]] }

\* ------------------------------------------------------------------- state
VARIABLES
    world,             \* the remote posters' size and what the OCR engine finds on each
    reader,            \* image_processor.reader: 0 is None, else the engine's identity
    engines,           \* how many times easyocr.Reader(...) has been constructed
    cache,             \* static/processed_images/<poster_id>.jpg, per poster_id
    pc,                \* where each request is
    req,               \* each request's poster_id and its session's movie_q
    dabt,              \* the locals of each request's detect_and_blur_text call
    processed_image,   \* get_processed_poster's processed_image
    reply,             \* the HTTP response of each request
    trace              \* what each request has done so far

\* The game and the leaderboard (app.py:21-46, 101-209).
VARIABLES
    session,           \* each client's Flask session (its cookie)
    board,             \* the file leaderboard.json
    game_pc,           \* where each client's /game-over request is
    local,             \* the locals of each /game-over request and of its add_score
    shown,             \* the leaderboard each client's last game-over page showed
    ghost              \* what each game and each add_score call has done so far

postervars == <<world, reader, engines, cache, pc, req, dabt, processed_image, reply, trace>>
gamevars == <<session, board, game_pc, local, shown, ghost>>
vars == <<postervars, gamevars>>

NoFile == [st |-> "absent", img |-> NoRaster, torn |-> FALSE]
NoLocals ==
    [response |-> NoResponse, img |-> NoRaster, result |-> NoRaster, mask |-> NoMask,
     detections |-> <<>>, inpaint_count |-> 0, regions |-> <<>>, ocr_reader |-> 0]
NoReply == [kind |-> "none", file |-> NoFile]
NoTrace ==
    [nfetch |-> 0, ndetect |-> 0, ninpaint |-> 0, nwrite |-> 0, hit |-> FALSE,
     failed |-> "", fallback |-> FALSE]

\* ------------------------------------------------------ game and leaderboard
Clients == 1..NClients
\* "player_name" not in session
NoName == ""
\* The name client c types into the welcome form.
Name(c) == IF c = 1 THEN "ann" ELSE IF c = 2 THEN "bob" ELSE "cat"
\* A session without a game (an empty cookie).
NoSession == [player_name |-> NoName, score |-> 0, question_count |-> 0, movie_q |-> NoQuestion]
\* app.py:108-111, 204-207: session.clear() and the three keys of a new game.
NewGame(player_name) ==
    [player_name |-> player_name, score |-> 0, question_count |-> 0, movie_q |-> NoQuestion]
\* leaderboard.json does not exist.
NoBoard == [st |-> "absent", entries |-> <<>>]
NoGameLocals == [player_name |-> NoName, score |-> 0, leaderboard |-> <<>>]
NoGhost ==
    [ncorrect |-> [c \in Clients |-> 0], recorded |-> [c \in Clients |-> 0],
     added |-> EmptyBag, calls |-> 0]

\* app.py:40: leaderboard.sort(key=lambda x: x["score"], reverse=True). The sort is
\* stable: entries of equal score keep their order.
RECURSIVE InsertDesc(_, _)
InsertDesc(sorted, e) ==
    IF sorted = <<>> THEN <<e>>
    ELSE IF Head(sorted).score >= e.score
    THEN <<Head(sorted)>> \o InsertDesc(Tail(sorted), e)
    ELSE <<e>> \o sorted
RECURSIVE SortDesc(_)
SortDesc(leaderboard) ==
    IF leaderboard = <<>> THEN <<>>
    ELSE InsertDesc(SortDesc(SubSeq(leaderboard, 1, Len(leaderboard) - 1)),
                    leaderboard[Len(leaderboard)])

\* app.py:46: leaderboard[:limit]
get_top_scores(leaderboard, n) == SubSeq(leaderboard, 1, Min2(n, Len(leaderboard)))

\* No leaderboard file, no session, no /game-over request in flight.
InitGame ==
    /\ session = [c \in Clients |-> NoSession]
    /\ board = NoBoard
    /\ game_pc = [c \in Clients |-> "idle"]
    /\ local = [c \in Clients |-> NoGameLocals]
    /\ shown = [c \in Clients |-> <<>>]
    /\ ghost = NoGhost

\* The state after the module is imported: no reader, an empty cache directory
\* (app.py:17-18), no request in flight.
InitApp ==
    /\ reader = 0
    /\ engines = 0
    /\ cache = [k \in Keys |-> NoFile]
    /\ pc = [p \in Procs |-> "idle"]
    /\ req = [p \in Procs |-> [poster_id |-> Digest("u1"), movie_q |-> NoQuestion]]
    /\ dabt = [p \in Procs |-> NoLocals]
    /\ processed_image = [p \in Procs |-> NoRaster]
    /\ reply = [p \in Procs |-> NoReply]
    /\ trace = [p \in Procs |-> NoTrace]

Init ==
    /\ world \in ThumbWorlds
    /\ InitApp
    /\ InitGame

\* ------------------------------------------------- get_processed_poster
\* A poster request arrives: /processed-poster/<poster_id>, with its session cookie.
Start(p) ==
    /\ pc[p] \in {"idle", "done"}
    /\ \E k \in Keys, mq \in URLs \cup {NoQuestion} :
         /\ req' = [req EXCEPT ![p] = [poster_id |-> k, movie_q |-> mq]]
         /\ trace' = [trace EXCEPT ![p] = [NoTrace EXCEPT !.hit = cache[k].st # "absent"]]
    /\ pc' = [pc EXCEPT ![p] = "check"]
    /\ dabt' = [dabt EXCEPT ![p] = NoLocals]
    /\ processed_image' = [processed_image EXCEPT ![p] = NoRaster]
    /\ reply' = [reply EXCEPT ![p] = NoReply]
    /\ UNCHANGED <<gamevars, world, reader, engines, cache>>

\* CheckCache without the early return of app.py:229-231.
CheckCacheNoReturn(p) ==
    /\ pc[p] = "check"
    /\ LET k == req[p].poster_id
           mq == req[p].movie_q
       IN  IF mq = NoQuestion
           THEN /\ pc' = [pc EXCEPT ![p] = "done"]
                /\ reply' = [reply EXCEPT ![p] = [kind |-> "404", file |-> NoFile]]
           ELSE IF Digest(mq) = k
           THEN /\ pc' = [pc EXCEPT ![p] = "fetch"]
                /\ reply' = reply
           ELSE /\ pc' = [pc EXCEPT ![p] = "done"]
                /\ reply' = [reply EXCEPT ![p] = [kind |-> "redirect", file |-> NoFile]]
    /\ UNCHANGED <<gamevars, world, reader, engines, cache, req, dabt, processed_image, trace>>

\* CheckCache without the comparison of app.py:240: any request whose session
\* holds a question processes that question's poster under the requested key.
CheckCacheNoCompare(p) ==
    /\ pc[p] = "check"
    /\ LET k == req[p].poster_id
           mq == req[p].movie_q
       IN  IF cache[k].st # "absent"
           THEN /\ pc' = [pc EXCEPT ![p] = "send_cached"]
                /\ reply' = reply
           ELSE IF mq = NoQuestion
           THEN /\ pc' = [pc EXCEPT ![p] = "done"]
                /\ reply' = [reply EXCEPT ![p] = [kind |-> "404", file |-> NoFile]]
           ELSE /\ pc' = [pc EXCEPT ![p] = "fetch"]
                /\ reply' = reply
    /\ UNCHANGED <<gamevars, world, reader, engines, cache, req, dabt, processed_image, trace>>

\* app.py:229-256: os.path.exists(processed_path), then the session's question.
CheckCache(p) ==
    /\ pc[p] = "check"
    /\ LET k == req[p].poster_id
           mq == req[p].movie_q
       IN  IF cache[k].st # "absent"
           THEN /\ pc' = [pc EXCEPT ![p] = "send_cached"]
                /\ reply' = reply
           ELSE IF mq = NoQuestion
           THEN /\ pc' = [pc EXCEPT ![p] = "done"]
                /\ reply' = [reply EXCEPT ![p] = [kind |-> "404", file |-> NoFile]]
           ELSE IF Digest(mq) = k
           THEN /\ pc' = [pc EXCEPT ![p] = "fetch"]
                /\ reply' = reply
           ELSE /\ pc' = [pc EXCEPT ![p] = "done"]
                /\ reply' = [reply EXCEPT ![p] = [kind |-> "redirect", file |-> NoFile]]
    /\ UNCHANGED <<gamevars, world, reader, engines, cache, req, dabt, processed_image, trace>>

\* app.py:231: send_file(processed_path) on the cache hit path.
SendCached(p) ==
    /\ pc[p] = "send_cached"
    /\ LET f == cache[req[p].poster_id]
       IN  IF f.st = "absent"
           THEN /\ pc' = [pc EXCEPT ![p] = "except"]
                /\ reply' = reply
           ELSE /\ pc' = [pc EXCEPT ![p] = "done"]
                /\ reply' = [reply EXCEPT ![p] = [kind |-> "file", file |-> f]]
    /\ UNCHANGED <<gamevars, world, reader, engines, cache, req, dabt, processed_image, trace>>

\* app.py:242: detect_and_blur_text returns `raster` to get_processed_poster.
Returned(p, raster) ==
    /\ processed_image' = [processed_image EXCEPT ![p] = raster]
    /\ pc' = [pc EXCEPT ![p] = "returned"]

\* app.py:244-253: `if processed_image is not None`, else the redirect to the
\* original URL. The call's locals are gone.
CheckProcessed(p) ==
    /\ pc[p] = "returned"
    /\ IF processed_image[p] = NoRaster
       THEN /\ pc' = [pc EXCEPT ![p] = "done"]
            /\ reply' = [reply EXCEPT ![p] = [kind |-> "redirect", file |-> NoFile]]
       ELSE /\ pc' = [pc EXCEPT ![p] = "imwrite"]
            /\ reply' = reply
    /\ dabt' = [dabt EXCEPT ![p] = NoLocals]
    /\ trace' = [trace EXCEPT ![p] = [NoTrace EXCEPT !.hit = trace[p].hit]]
    /\ UNCHANGED <<gamevars, world, reader, engines, cache, req, processed_image>>

\* ------------------------------------------------- detect_and_blur_text
\* image_processor.py:35-49: requests.get, raise_for_status, Image.open, cvtColor,
\* img.copy(), np.zeros. Any exception leads to the handler at line 100.
Fetch(p) ==
    /\ pc[p] = "fetch"
    /\ \E r \in Responses :
         LET ok == ~r.exc /\ r.status = "ok" /\ Decodable(r)
             img == Decode(r, req[p].movie_q, world.size)
         IN  /\ dabt' = [dabt EXCEPT ![p] =
                    IF ok
                    THEN [@ EXCEPT !.response = r, !.img = img, !.result = img,
                                   !.mask = Zeros(img.w, img.h)]
                    ELSE [@ EXCEPT !.response = r]]
             /\ pc' = [pc EXCEPT ![p] = IF ok THEN "get_reader" ELSE "fallback"]
             /\ trace' = [trace EXCEPT ![p].nfetch = @ + 1,
                                       ![p].failed = IF ok THEN @
                                                     ELSE IF r.exc \/ r.status # "ok"
                                                     THEN "fetch" ELSE "decode"]
    /\ UNCHANGED <<gamevars, world, reader, engines, cache, req, processed_image, reply>>

\* image_processor.py:15: `if reader is None`, and line 17 when it is not.
GetReader(p) ==
    /\ pc[p] = "get_reader"
    /\ IF reader = 0
       THEN /\ pc' = [pc EXCEPT ![p] = "construct"]
            /\ dabt' = dabt
       ELSE /\ pc' = [pc EXCEPT ![p] = "readtext"]
            /\ dabt' = [dabt EXCEPT ![p].ocr_reader = reader]
    /\ UNCHANGED <<gamevars, world, reader, engines, cache, req, processed_image, reply, trace>>

\* image_processor.py:16: reader = easyocr.Reader(['en'], gpu=False); the model
\* download or load may raise.
Construct(p) ==
    /\ pc[p] = "construct"
    /\ \/ /\ engines' = engines + 1
          /\ reader' = engines + 1
          /\ pc' = [pc EXCEPT ![p] = "return_reader"]
          /\ trace' = trace
       \/ /\ UNCHANGED <<engines, reader>>
          /\ pc' = [pc EXCEPT ![p] = "fallback"]
          /\ trace' = [trace EXCEPT ![p].failed = "init"]
    /\ UNCHANGED <<gamevars, world, cache, req, dabt, processed_image, reply>>

\* image_processor.py:17: `return reader` reads the global again.
ReturnReader(p) ==
    /\ pc[p] = "return_reader"
    /\ dabt' = [dabt EXCEPT ![p].ocr_reader = reader]
    /\ pc' = [pc EXCEPT ![p] = "readtext"]
    /\ UNCHANGED <<gamevars, world, reader, engines, cache, req, processed_image, reply, trace>>

\* image_processor.py:58-87: ocr_reader.readtext(img) and the loop that builds the
\* mask; either may raise.
Detect(p) ==
    /\ pc[p] = "readtext"
    /\ \/ LET detections == world.ocr[req[p].movie_q]
              st == BuildMask(detections, dabt[p].img.w, dabt[p].img.h)
          IN  /\ dabt' = [dabt EXCEPT ![p].detections = detections,
                                      ![p].mask = st.mask,
                                      ![p].inpaint_count = st.inpaint_count,
                                      ![p].regions = st.regions]
              /\ pc' = [pc EXCEPT ![p] = "inpaint"]
              /\ trace' = [trace EXCEPT ![p].ndetect = @ + 1]
       \/ /\ dabt' = dabt
          /\ pc' = [pc EXCEPT ![p] = "fallback"]
          /\ trace' = [trace EXCEPT ![p].ndetect = @ + 1, ![p].failed = "detect"]
    /\ UNCHANGED <<gamevars, world, reader, engines, cache, req, processed_image, reply>>

\* Inpaint without the test of image_processor.py:90.
InpaintAlways(p) ==
    /\ pc[p] = "inpaint"
    /\ \/ /\ Returned(p, inpaint(dabt[p].img, dabt[p].mask))
          /\ dabt' = [dabt EXCEPT ![p].result = inpaint(dabt[p].img, dabt[p].mask)]
          /\ trace' = [trace EXCEPT ![p].ninpaint = @ + 1]
       \/ /\ pc' = [pc EXCEPT ![p] = "fallback"]
          /\ trace' = [trace EXCEPT ![p].ninpaint = @ + 1, ![p].failed = "inpaint"]
          /\ UNCHANGED <<dabt, processed_image>>
    /\ UNCHANGED <<gamevars, world, reader, engines, cache, req, reply>>

\* image_processor.py:90-98: inpaint when something was marked, then return result.
Inpaint(p) ==
    /\ pc[p] = "inpaint"
    /\ \/ /\ dabt[p].inpaint_count > 0
          /\ Returned(p, inpaint(dabt[p].img, dabt[p].mask))
          /\ dabt' = [dabt EXCEPT ![p].result = inpaint(dabt[p].img, dabt[p].mask)]
          /\ trace' = [trace EXCEPT ![p].ninpaint = @ + 1]
       \/ /\ dabt[p].inpaint_count > 0
          /\ pc' = [pc EXCEPT ![p] = "fallback"]
          /\ trace' = [trace EXCEPT ![p].ninpaint = @ + 1, ![p].failed = "inpaint"]
          /\ UNCHANGED <<dabt, processed_image>>
       \/ /\ ~(dabt[p].inpaint_count > 0)
          /\ Returned(p, dabt[p].result)
          /\ dabt' = dabt
          /\ trace' = trace
    /\ UNCHANGED <<gamevars, world, reader, engines, cache, req, reply>>

\* Fallback without the inner try of image_processor.py:103-108: a failure of the
\* re-fetch or of its decoding leaves detect_and_blur_text as an exception.
FallbackRaises(p) ==
    /\ pc[p] = "fallback"
    /\ \E r \in Responses :
         /\ IF Decodable(r)
            THEN Returned(p, Decode(r, req[p].movie_q, world.size))
            ELSE /\ pc' = [pc EXCEPT ![p] = "except"]
                 /\ processed_image' = processed_image
         /\ dabt' = [dabt EXCEPT ![p].response = r]
    /\ trace' = [trace EXCEPT ![p].nfetch = @ + 1, ![p].fallback = TRUE]
    /\ UNCHANGED <<gamevars, world, reader, engines, cache, req, reply>>

\* Fallback that fetches again when its re-fetch fails.
FallbackRetries(p) ==
    /\ pc[p] = "fallback"
    /\ \E r \in Responses :
         /\ IF Decodable(r)
            THEN Returned(p, Decode(r, req[p].movie_q, world.size))
            ELSE UNCHANGED <<pc, processed_image>>
         /\ dabt' = [dabt EXCEPT ![p].response = r]
    /\ trace' = [trace EXCEPT ![p].nfetch = @ + 1, ![p].fallback = TRUE]
    /\ UNCHANGED <<gamevars, world, reader, engines, cache, req, reply>>

\* image_processor.py:100-108: the handler fetches the URL again (no
\* raise_for_status), decodes the body and returns it; None if that raises.
Fallback(p) ==
    /\ pc[p] = "fallback"
    /\ \E r \in Responses :
         /\ Returned(p, IF Decodable(r) THEN Decode(r, req[p].movie_q, world.size)
                        ELSE NoRaster)
         /\ dabt' = [dabt EXCEPT ![p].response = r]
    /\ trace' = [trace EXCEPT ![p].nfetch = @ + 1, ![p].fallback = TRUE]
    /\ UNCHANGED <<gamevars, world, reader, engines, cache, req, reply>>

\* ------------------------------------------------- save_processed_image
\* The requests that have the file of p's key open for writing, p aside.
Writers(p) ==
    {q \in Procs \ {p} : pc[q] = "imwrite_end" /\ req[q].poster_id = req[p].poster_id}

\* image_processor.py:119-126: cv2.imwrite opens output_path for writing, which
\* creates or truncates the file; or it fails before touching it.
ImwriteOpen(p) ==
    /\ pc[p] = "imwrite"
    /\ \/ LET k == req[p].poster_id
              torn == /\ Writers(p) # {}
                      /\ \/ cache[k].torn
                         \/ \E q \in Writers(p) : processed_image[q] # processed_image[p]
          IN  /\ cache' = [cache EXCEPT ![k] =
                     [st |-> "partial", img |-> imwrite(processed_image[p]), torn |-> torn]]
              /\ pc' = [pc EXCEPT ![p] = "imwrite_end"]
              /\ trace' = [trace EXCEPT ![p].nwrite = @ + 1]
       \/ /\ cache' = cache
          /\ pc' = [pc EXCEPT ![p] = "send_file"]
          /\ trace' = trace
    /\ UNCHANGED <<gamevars, world, reader, engines, req, dabt, processed_image, reply>>

\* image_processor.py:126-132: cv2.imwrite has written its last byte. The file is
\* whole unless another request still writes it; two writers of different images
\* may leave a mix of both.
ImwriteClose(p) ==
    /\ pc[p] = "imwrite_end"
    /\ LET k == req[p].poster_id
       IN  IF Writers(p) # {}
           THEN cache' = cache
           ELSE \E st \in (IF cache[k].torn THEN {"complete", "corrupt"} ELSE {"complete"}) :
                    cache' = [cache EXCEPT ![k].st = st, ![k].torn = FALSE]
    /\ pc' = [pc EXCEPT ![p] = "send_file"]
    /\ UNCHANGED <<gamevars, world, reader, engines, req, dabt, processed_image, reply, trace>>

\* app.py:247: send_file(processed_path) after the save; it raises when the file
\* is not there.
SendFile(p) ==
    /\ pc[p] = "send_file"
    /\ LET f == cache[req[p].poster_id]
       IN  IF f.st = "absent"
           THEN /\ pc' = [pc EXCEPT ![p] = "except"]
                /\ reply' = reply
           ELSE /\ pc' = [pc EXCEPT ![p] = "done"]
                /\ reply' = [reply EXCEPT ![p] = [kind |-> "file", file |-> f]]
    /\ UNCHANGED <<gamevars, world, reader, engines, cache, req, dabt, processed_image, trace>>

\* app.py:258-265: the route's own handler.
HandleException(p) ==
    /\ pc[p] = "except"
    /\ pc' = [pc EXCEPT ![p] = "done"]
    /\ reply' = [reply EXCEPT ![p] =
           [kind |-> IF req[p].movie_q # NoQuestion THEN "redirect" ELSE "500",
            file |-> NoFile]]
    /\ UNCHANGED <<gamevars, world, reader, engines, cache, req, dabt, processed_image, trace>>

\* ----------------------------------------------------------- specifications
Next ==
    \E p \in Procs :
        \/ Start(p)
        \/ CheckCache(p)
        \/ SendCached(p)
        \/ Fetch(p)
        \/ GetReader(p)
        \/ Construct(p)
        \/ ReturnReader(p)
        \/ Detect(p)
        \/ Inpaint(p)
        \/ Fallback(p)
        \/ CheckProcessed(p)
        \/ ImwriteOpen(p)
        \/ ImwriteClose(p)
        \/ SendFile(p)
        \/ HandleException(p)

Spec == Init /\ [][Next]_vars

\* The mask builder on its own: request 1 has fetched and decoded the poster of u1
\* and holds the reader (the state Fetch and GetReader leave), the poster is
\* PosterW x PosterH, and the engine finds any list of at most MaxDet detections.
MaskWorlds ==
    { [size |-> <<PosterW, PosterH>>,
       ocr |-> [u \in URLs |-> IF u = "u1" THEN ds ELSE <<>>]] :
        ds \in SeqsUpTo(MaskDets, MaxDet) }

InitMask ==
    /\ world \in MaskWorlds
    /\ reader = 1
    /\ engines = 1
    /\ cache = [k \in Keys |-> NoFile]
    /\ pc = [p \in Procs |-> IF p = 1 THEN "readtext" ELSE "idle"]
    /\ req = [p \in Procs |->
                 [poster_id |-> Digest("u1"), movie_q |-> IF p = 1 THEN "u1" ELSE NoQuestion]]
    /\ dabt = [p \in Procs |->
                  IF p = 1
                  THEN [NoLocals EXCEPT
                          !.response = [exc |-> FALSE, status |-> "ok", body |-> "poster"],
                          !.img = cvtColor(PosterRGB("u1", world.size)),
                          !.result = cvtColor(PosterRGB("u1", world.size)),
                          !.mask = Zeros(world.size[1], world.size[2]),
                          !.ocr_reader = 1]
                  ELSE NoLocals]
    /\ processed_image = [p \in Procs |-> NoRaster]
    /\ reply = [p \in Procs |-> NoReply]
    /\ trace = [p \in Procs |-> IF p = 1 THEN [NoTrace EXCEPT !.nfetch = 1] ELSE NoTrace]
    /\ InitGame

NextMask == \E p \in Procs : Detect(p) \/ Inpaint(p)

SpecMask == InitMask /\ [][NextMask]_vars

\* ------------------------------------------------------------ game routes
\* Each client sends one request at a time; every route but /game-over is one
\* step (it touches only the client's own session).
\* app.py:101-114: /start-game with the stripped player_name of the form.
StartGame(c) ==
    /\ game_pc[c] = "idle"
    /\ \E player_name \in {NoName, Name(c)} :
         IF player_name = NoName
         THEN UNCHANGED <<session, ghost>>
         ELSE /\ session' = [session EXCEPT ![c] = NewGame(player_name)]
              /\ ghost' = [ghost EXCEPT !.ncorrect[c] = 0, !.recorded[c] = 0]
    /\ UNCHANGED <<postervars, board, game_pc, local, shown>>

\* app.py:117-139: /movie-question; get_movie_question (app.py:49-93) picks a
\* poster or raises.
MovieQuestion(c) ==
    /\ game_pc[c] = "idle"
    /\ session[c].player_name # NoName
    /\ IF session[c].question_count >= GameLength \/ session[c].movie_q # NoQuestion
       THEN session' = session
       ELSE \/ \E u \in URLs : session' = [session EXCEPT ![c].movie_q = u]
            \/ session' = session
    /\ UNCHANGED <<postervars, board, game_pc, local, shown, ghost>>

\* app.py:148-171: /movie-question/next?correct=...
NextQuestion(c) ==
    /\ game_pc[c] = "idle"
    /\ session[c].player_name # NoName
    /\ session[c].question_count < MaxCount
    /\ \E is_correct \in BOOLEAN :
         /\ session' = [session EXCEPT
                ![c].score = IF is_correct THEN @ + ScoreStep ELSE @,
                ![c].question_count = @ + 1,
                ![c].movie_q = NoQuestion]
         /\ ghost' = [ghost EXCEPT !.ncorrect[c] = IF is_correct THEN @ + 1 ELSE @]
    /\ UNCHANGED <<postervars, board, game_pc, local, shown>>

\* app.py:197-209: /play-again
PlayAgain(c) ==
    /\ game_pc[c] = "idle"
    /\ session[c].player_name # NoName
    /\ session' = [session EXCEPT ![c] = NewGame(session[c].player_name)]
    /\ ghost' = [ghost EXCEPT !.ncorrect[c] = 0, !.recorded[c] = 0]
    /\ UNCHANGED <<postervars, board, game_pc, local, shown>>

\* app.py:174-184: /game-over reads the session and calls add_score.
GameOver(c) ==
    /\ game_pc[c] = "idle"
    /\ session[c].player_name # NoName
    /\ ghost.calls < MaxCalls
    /\ local' = [local EXCEPT ![c] =
           [player_name |-> session[c].player_name, score |-> session[c].score,
            leaderboard |-> <<>>]]
    /\ game_pc' = [game_pc EXCEPT ![c] = "load"]
    /\ ghost' = [ghost EXCEPT !.calls = @ + 1]
    /\ UNCHANGED <<postervars, session, board, shown>>

\* app.py:37-40 with 23-28: load_leaderboard(), append, sort. json.load raises on
\* a file that is being written or is not JSON, and the request ends with a 500.
LoadLeaderboard(c) ==
    /\ game_pc[c] = "load"
    /\ IF board.st \in {"absent", "complete"}
       THEN /\ local' = [local EXCEPT ![c].leaderboard =
                   SortDesc(Append(board.entries,
                        [name |-> local[c].player_name, score |-> local[c].score]))]
            /\ game_pc' = [game_pc EXCEPT ![c] = "save"]
       ELSE /\ local' = [local EXCEPT ![c] = NoGameLocals]
            /\ game_pc' = [game_pc EXCEPT ![c] = "idle"]
    /\ UNCHANGED <<postervars, session, board, shown, ghost>>

\* app.py:32: open(LEADERBOARD_FILE, 'w') creates or truncates the file.
SaveOpen(c) ==
    /\ game_pc[c] = "save"
    /\ board' = [st |-> "partial", entries |-> <<>>]
    /\ game_pc' = [game_pc EXCEPT ![c] = "dump"]
    /\ UNCHANGED <<postervars, session, local, shown, ghost>>

\* app.py:33: json.dump and the close of the file: the bytes land at offset 0. If
\* another request has written since this one opened the file, they overlay
\* that content; what is left is this list, or not JSON when this text is shorter.
SaveDump(c) ==
    /\ game_pc[c] = "dump"
    /\ \E st \in (IF board.st = "partial" THEN {"complete"} ELSE {"complete", "corrupt"}) :
         board' = [st |-> st, entries |-> IF st = "complete" THEN local[c].leaderboard ELSE <<>>]
    /\ game_pc' = [game_pc EXCEPT ![c] = "top"]
    /\ ghost' = [ghost EXCEPT
           !.added = @ (+) SetToBag({[name |-> local[c].player_name, score |-> local[c].score]}),
           !.recorded[c] = @ + 1]
    /\ UNCHANGED <<postervars, session, local, shown>>

\* app.py:187 with 43-46: get_top_scores(5), then the page.
TopScores(c) ==
    /\ game_pc[c] = "top"
    /\ shown' = [shown EXCEPT ![c] =
           IF board.st \in {"absent", "complete"}
           THEN get_top_scores(board.entries, limit) ELSE @]
    /\ local' = [local EXCEPT ![c] = NoGameLocals]
    /\ game_pc' = [game_pc EXCEPT ![c] = "idle"]
    /\ UNCHANGED <<postervars, session, board, ghost>>

\* One player's games, from the welcome page on.
Solo == {1}

NextGame ==
    \E c \in Solo :
        \/ StartGame(c)
        \/ MovieQuestion(c)
        \/ NextQuestion(c)
        \/ PlayAgain(c)
        \/ GameOver(c)
        \/ LoadLeaderboard(c)
        \/ SaveOpen(c)
        \/ SaveDump(c)
        \/ TopScores(c)

SpecGame == Init /\ [][NextGame]_vars

\* The leaderboard under concurrent /game-over requests: every client has played
\* its GameLength questions and holds one of these scores.
BoardScores == {0, 5 * ScoreStep, GameLength * ScoreStep}

InitBoard ==
    /\ world \in ThumbWorlds
    /\ InitApp
    /\ session \in [Clients -> {[player_name |-> n, score |-> sc, question_count |-> GameLength,
                                 movie_q |-> NoQuestion] : n \in {Name(c) : c \in Clients},
                                                          sc \in BoardScores}]
    /\ \A c \in Clients : session[c].player_name = Name(c)
    /\ board = NoBoard
    /\ game_pc = [c \in Clients |-> "idle"]
    /\ local = [c \in Clients |-> NoGameLocals]
    /\ shown = [c \in Clients |-> <<>>]
    /\ ghost = [NoGhost EXCEPT !.ncorrect = [c \in Clients |-> session[c].score \div ScoreStep]]

NextBoard ==
    \E c \in Clients :
        \/ GameOver(c)
        \/ LoadLeaderboard(c)
        \/ SaveOpen(c)
        \/ SaveDump(c)
        \/ TopScores(c)

SpecBoard == InitBoard /\ [][NextBoard]_vars

\* ------------------------------------------------------------------ claims
\* The requests that started when the file of their key was already there.
HitRequests == {p \in Procs : trace[p].hit}

\* C1: a request that starts when a cache file for its key exists performs no
\* fetch, no detection, no inpainting and no cache write, never enters the
\* pipeline, and ends by serving the file, whatever its session holds.
C1_CacheHitDoesNoWork ==
    \A p \in HitRequests :
        /\ trace[p].nfetch = 0 /\ trace[p].ndetect = 0
        /\ trace[p].ninpaint = 0 /\ trace[p].nwrite = 0
        /\ pc[p] \in {"check", "send_cached", "done"}
        /\ pc[p] = "done" =>
              /\ reply[p].kind = "file"
              /\ reply[p].file.st # "absent"
              /\ processed_image[p] = NoRaster

\* A request whose session question matches the requested poster, so that it
\* would have processed the poster on a miss, has served the cached file.
C1_Witness ==
    \E p \in HitRequests :
        /\ pc[p] = "done"
        /\ req[p].movie_q # NoQuestion
        /\ Digest(req[p].movie_q) = req[p].poster_id
        /\ reply[p].kind = "file"

\* C2: a request that serves the cache file always serves a completely written
\* image, never a file that another request is still writing.
C2_ReaderSeesWholeFile ==
    \A p \in Procs : reply[p].kind = "file" => reply[p].file.st = "complete"

\* C3: the engine constructor runs at most once in the process, and all the
\* requests that hold an engine hold the same one.
C3_EngineInitializedOnce ==
    /\ engines <= 1
    /\ \A p, q \in Procs :
          dabt[p].ocr_reader # 0 /\ dabt[q].ocr_reader # 0
              => dabt[p].ocr_reader = dabt[q].ocr_reader

\* The poster of request p's session question, as detect_and_blur_text holds it
\* after decoding (BGR).
Original(p) == cvtColor(PosterRGB(req[p].movie_q, world.size))
\* The calls of detect_and_blur_text that went through the handler and returned.
FellBack == {p \in Procs : trace[p].fallback /\ pc[p] = "returned"}
\* The re-fetch succeeded as a fetch: no network failure, a success status.
FetchSucceeded(r) == ~r.exc /\ r.status = "ok"

\* C4 as stated: after a failure of any stage the call does not raise, returns the
\* original raster whenever the re-fetch of the URL succeeds, and returns None
\* only when the re-fetch fails.
C4_OriginalWheneverRefetchSucceeds ==
    /\ \A p \in Procs : trace[p].fallback => pc[p] = "returned"
    /\ \A p \in FellBack :
          /\ FetchSucceeded(dabt[p].response) => processed_image[p] = Original(p)
          /\ processed_image[p] = NoRaster => ~FetchSucceeded(dabt[p].response)

\* C4 amended: after a failure of any stage the call does not raise; it returns the
\* decoded body of the re-fetch whenever that body is an image (the original
\* poster under a success status, the error response's image otherwise) and
\* returns None exactly when the re-fetch raises or its body is no image.
C4_FallbackBoundary ==
    /\ \A p \in Procs : trace[p].fallback => pc[p] = "returned"
    /\ \A p \in FellBack :
          LET r == dabt[p].response
          IN  /\ trace[p].failed \in {"fetch", "decode", "init", "detect", "inpaint"}
              /\ (r.exc \/ r.body = "garbage") <=> processed_image[p] = NoRaster
              /\ r.body = "poster" => processed_image[p] = Original(p)
              /\ r.body = "placeholder" =>
                    processed_image[p] = cvtColor(PlaceholderRGB(world.size))

\* The inpainting stage failed and the call returned the original poster.
C4_Witness ==
    \E p \in FellBack :
        /\ trace[p].failed = "inpaint"
        /\ processed_image[p] = Original(p)

\* C5: every rectangle marked for an accepted detection lies within
\* [0,width) x [0,height) and has x_min <= x_max and y_min <= y_max.
C5_RegionsInsideImage ==
    \A p \in Procs : \A i \in DOMAIN dabt[p].regions :
        LET r == dabt[p].regions[i]
        IN  /\ 0 <= r.x_min /\ r.x_min <= r.x_max /\ r.x_max < dabt[p].img.w
            /\ 0 <= r.y_min /\ r.y_min <= r.y_max /\ r.y_max < dabt[p].img.h

\* C6 as stated: once a file has been written, no step of any request deletes
\* it or writes it again.
C6_WrittenOnce ==
    [][\A k \in Keys : cache[k].st = "complete" => cache'[k] = cache[k]]_vars

\* C6 amended: a cache file is never deleted, and a file that exists is written
\* (again) only by a request that started before the file existed, at its
\* cv2.imwrite; a request that starts once the file exists never writes it.
C6_RewrittenOnlyByEarlierMiss ==
    [][\A k \in Keys :
          cache[k].st # "absent" =>
              /\ cache'[k].st # "absent"
              /\ cache'[k] # cache[k] =>
                    \E p \in Procs \ HitRequests :
                        /\ req[p].poster_id = k
                        /\ pc[p] \in {"imwrite", "imwrite_end"}
                        /\ pc'[p] # pc[p]]_vars

\* Two requests have both written the file of the same key.
C6_Witness ==
    \E p, q \in Procs :
        /\ p # q
        /\ req[p].poster_id = req[q].poster_id
        /\ pc[p] = "done" /\ trace[p].nwrite = 1
        /\ pc[q] = "done" /\ trace[q].nwrite = 1
        /\ cache[req[p].poster_id].st = "complete"

\* No detection of the list has a confidence above the threshold.
NoneAccepted(dets) == \A i \in DOMAIN dets : dets[i].confidence <= Threshold

\* C7: when no detection is accepted, cv2.inpaint is never invoked and the raster
\* the call returns is pixel-identical to the fetched original.
C7_ZeroAcceptedUntouched ==
    \A p \in Procs :
        (/\ pc[p] \in {"inpaint", "returned"}
         /\ ~trace[p].fallback
         /\ NoneAccepted(dabt[p].detections))
        => /\ trace[p].ninpaint = 0
           /\ dabt[p].result = Original(p)
           /\ pc[p] = "returned" => processed_image[p] = Original(p)

\* The call returned a poster on which two detections, all of low confidence, and
\* one of them at the threshold exactly, were found.
C7_Witness ==
    \E p \in Procs :
        /\ pc[p] = "returned" /\ ~trace[p].fallback
        /\ Len(dabt[p].detections) = MaxDet
        /\ NoneAccepted(dabt[p].detections)
        /\ \E i \in DOMAIN dabt[p].detections : dabt[p].detections[i].confidence = Threshold
        /\ processed_image[p] = Original(p)

\* The detections of the list with a confidence above t, by position.
AcceptedAt(dets, t) == {i \in DOMAIN dets : Above(dets[i].confidence, t)}
Thresholds == {0, Threshold - 1, Threshold, Threshold + 1, 82, 100}

\* C8: a detection with confidence <= 0.3 contributes no pixel to the mask and
\* nothing to inpaint_count, and raising the threshold never enlarges the set of
\* accepted detections.
C8_LowConfidenceIgnored ==
    \A p \in Procs :
        pc[p] = "inpaint" =>
            LET dets == dabt[p].detections
                high == {i \in DOMAIN dets : dets[i].confidence > Threshold}
            IN  /\ \A q \in DOMAIN dabt[p].mask :
                      dabt[p].mask[q] # 0 =>
                          \E i \in high :
                              Filled(Region(dets[i].bbox, dabt[p].img.w, dabt[p].img.h), q)
                /\ dabt[p].inpaint_count = Cardinality(high)
                /\ Len(dabt[p].regions) = Cardinality(high)
                /\ \A t1, t2 \in Thresholds :
                      t1 <= t2 => AcceptedAt(dets, t2) \subseteq AcceptedAt(dets, t1)

\* A detection at the threshold exactly was found beside an accepted one that
\* marks fewer pixels than the two would together.
C8_Witness ==
    \E p \in Procs :
        /\ pc[p] = "inpaint"
        /\ dabt[p].inpaint_count = 1
        /\ \E i, j \in DOMAIN dabt[p].detections :
              /\ dabt[p].detections[i].confidence = Threshold
              /\ dabt[p].detections[j].confidence > Threshold
              /\ \E q \in DOMAIN dabt[p].mask :
                    /\ dabt[p].mask[q] = 0
                    /\ Filled(Region(dabt[p].detections[i].bbox,
                                     dabt[p].img.w, dabt[p].img.h), q)

\* C9 as stated: after the fetch of the URL fails, the same call issues no further
\* fetch of that URL and ends with the failure signal.
C9_NoFetchAfterFailedFetch ==
    \A p \in Procs :
        trace[p].failed = "fetch" =>
            /\ trace[p].nfetch = 1
            /\ pc[p] = "returned" => processed_image[p] = NoRaster

\* C9 amended: after the fetch of the URL fails, the same call fetches the URL
\* exactly once more (the handler's re-fetch) and no call ever fetches a third
\* time; the call ends with the failure signal exactly when that re-fetch raises
\* or returns a body that is no image.
C9_OneRefetchAfterFailedFetch ==
    \A p \in Procs :
        /\ trace[p].nfetch <= 2
        /\ trace[p].nfetch = 2 => trace[p].fallback
        /\ (trace[p].failed = "fetch" /\ pc[p] = "returned") =>
              /\ trace[p].nfetch = 2
              /\ processed_image[p] = NoRaster <=> ~Decodable(dabt[p].response)

\* The fetch failed, the re-fetch failed too, and the call returned None.
C9_Witness ==
    \E p \in Procs :
        /\ trace[p].failed = "fetch" /\ pc[p] = "returned"
        /\ trace[p].nfetch = 2
        /\ dabt[p].response.exc
        /\ processed_image[p] = NoRaster

\* C10: when two requests for the same key both started with no cache file and
\* both wrote it, the read that follows the first one's write returns a whole
\* image, the one either of them wrote.
C10_DoubleMissReadsWholeImage ==
    \A p, q \in Procs :
        (/\ p # q
         /\ req[p].poster_id = req[q].poster_id
         /\ ~trace[p].hit /\ ~trace[q].hit
         /\ trace[p].nwrite = 1 /\ trace[q].nwrite = 1
         /\ pc[p] = "done" /\ reply[p].kind = "file")
        => /\ reply[p].file.st = "complete"
           /\ reply[p].file.img \in {imwrite(processed_image[p]), imwrite(processed_image[q])}

\* C11: a cache file is only written by a call of detect_and_blur_text in which the
\* fetch, the detection and the inpainting all went through: a call that took the
\* handler of image_processor.py:100-108 never goes on to save_processed_image.
C11_FallbackNeverSaved ==
    [][\A p \in Procs :
          (pc[p] = "returned" /\ pc'[p] = "imwrite") => ~trace[p].fallback]_vars

\* Pixel q lies in the rectangle x_min..x_max by y_min..y_max of Region r.
InRegion(r, q) ==
    /\ r.x_min <= q[1] /\ q[1] <= r.x_max
    /\ r.y_min <= q[2] /\ q[2] <= r.y_max

\* C12: when the loop over the detections is done, a mask pixel is nonzero if and
\* only if it lies in the rectangle of the Region of at least one accepted
\* detection, wherever the detections' quadrilaterals are.
C12_MaskIsUnionOfRegions ==
    \A p \in Procs :
        pc[p] = "inpaint" =>
            \A q \in DOMAIN dabt[p].mask :
                dabt[p].mask[q] # 0 <=>
                    \E i \in DOMAIN dabt[p].regions : InRegion(dabt[p].regions[i], q)

\* The detections of the list that the loop accepts, in order.
Accepted(dets) == SelectSeq(dets, LAMBDA d : Above(d.confidence, Threshold))

\* v brought into lo..hi.
ClampTo(lo, hi, v) == Max2(lo, Min2(hi, v))

\* The bounding box of the four points, grown by the padding on every side, then
\* each side brought into the image bounds 0..w, 0..h.
PaddedBox(bbox, w, h) ==
    LET xs == {AsInt(bbox[i][1]) : i \in 1..4}
        ys == {AsInt(bbox[i][2]) : i \in 1..4}
    IN  [x_min |-> ClampTo(0, w, MinOf(xs) - padding),
         y_min |-> ClampTo(0, h, MinOf(ys) - padding),
         x_max |-> ClampTo(0, w, MaxOf(xs) + padding),
         y_max |-> ClampTo(0, h, MaxOf(ys) + padding)]

\* C13: the rectangle marked for each accepted detection is the bounding box of
\* its four points, grown by the padding of 5 on every side, then clamped to the
\* image bounds.
C13_RegionIsPaddedBoxClamped ==
    \A p \in Procs :
        pc[p] = "inpaint" =>
            LET acc == Accepted(dabt[p].detections)
            IN  /\ Len(dabt[p].regions) = Len(acc)
                /\ \A i \in DOMAIN acc :
                      dabt[p].regions[i] = PaddedBox(acc[i].bbox, dabt[p].img.w, dabt[p].img.h)

\* C14: inpaint_count is the number of detections with a confidence above the
\* threshold, whether or not their rectangles overlap, and cv2.inpaint is invoked
\* (once) if and only if inpaint_count > 0.
C14_CountAndInpaintGate ==
    \A p \in Procs :
        /\ pc[p] = "inpaint" =>
              /\ dabt[p].inpaint_count = Len(Accepted(dabt[p].detections))
              /\ trace[p].ninpaint = 0
        /\ (pc[p] = "returned" /\ ~trace[p].fallback) =>
              /\ dabt[p].inpaint_count = Len(Accepted(dabt[p].detections))
              /\ trace[p].ninpaint = (IF dabt[p].inpaint_count > 0 THEN 1 ELSE 0)
        /\ (pc[p] = "fallback" /\ trace[p].ninpaint > 0) =>
              /\ trace[p].ninpaint = 1
              /\ dabt[p].inpaint_count > 0

\* Two accepted detections whose rectangles share a pixel were counted as two, and
\* the poster was inpainted.
C14_Witness ==
    \E p \in Procs :
        /\ pc[p] = "returned" /\ ~trace[p].fallback
        /\ Len(dabt[p].detections) = 2
        /\ dabt[p].inpaint_count = 2
        /\ \E q \in DOMAIN dabt[p].mask :
              InRegion(dabt[p].regions[1], q) /\ InRegion(dabt[p].regions[2], q)
        /\ trace[p].ninpaint = 1

\* The request's session holds a question whose poster_id is the requested one.
Matches(p) == req[p].movie_q # NoQuestion /\ Digest(req[p].movie_q) = req[p].poster_id

\* Every pixel of the image is a pixel of what URL u served (the poster or the
\* body of an error response) or was reconstructed by cv2.inpaint.
FromURL(img, u) ==
    \A q \in DOMAIN img.px :
        img.px[q] \in {<<u, "g", "b">>, <<"x", "g", "b">>, <<"fill", "fill", "fill">>}

\* C15: a request fetches, processes or writes only when its session holds a
\* question whose poster_id equals the requested one, so the file of key k only
\* ever holds an image obtained from the URL whose digest is k.
C15_KeyMatchesURL ==
    /\ \A p \in Procs :
          (\/ pc[p] \in {"fetch", "get_reader", "construct", "return_reader", "readtext",
                         "inpaint", "fallback", "returned", "imwrite", "imwrite_end"}
           \/ trace[p].nfetch > 0 \/ trace[p].ndetect > 0
           \/ trace[p].ninpaint > 0 \/ trace[p].nwrite > 0)
          => Matches(p)
    /\ \A k \in Keys :
          cache[k].st # "absent" =>
              \E u \in URLs : Digest(u) = k /\ FromURL(cache[k].img, u)

\* A request for a key that is not its session question's was redirected without
\* doing anything, its key still without a file, while another request has
\* written the file of its own question's key.
C15_Witness ==
    \E p, q \in Procs :
        /\ pc[p] = "done" /\ req[p].movie_q # NoQuestion /\ ~Matches(p)
        /\ reply[p].kind = "redirect" /\ trace[p] = NoTrace
        /\ cache[req[p].poster_id].st = "absent"
        /\ pc[q] = "done" /\ Matches(q) /\ trace[q].nwrite = 1
        /\ cache[req[q].poster_id].st = "complete"

\* C16: within one game question_count never exceeds 10, score never exceeds 100,
\* and score is 10 times the number of /movie-question/next requests of the game
\* with correct=true.
C16_GameBounded ==
    \A c \in Clients :
        /\ session[c].question_count <= GameLength
        /\ session[c].score <= GameLength * ScoreStep
        /\ session[c].score = ScoreStep * ghost.ncorrect[c]

\* C17: a game's score is appended to the leaderboard only once its question_count
\* has reached 10, and at most once per game, however often /game-over is requested.
C17_RecordedOnceWhenOver ==
    \A c \in Clients :
        /\ ghost.recorded[c] <= 1
        /\ ghost.recorded[c] > 0 => session[c].question_count >= GameLength

\* The entries of a list, with how often each occurs.
BagOfSeq(entries) ==
    [e \in {entries[i] : i \in DOMAIN entries} |->
        Cardinality({i \in DOMAIN entries : entries[i] = e})]

\* The list is in descending order of score.
Descending(entries) ==
    \A i, j \in DOMAIN entries : i < j => entries[i].score >= entries[j].score

\* C18: whenever no add_score call is in progress, leaderboard.json holds every
\* entry added so far exactly once per add_score call, in descending order of
\* score (so that its first n entries are the n highest scores recorded).
C18_LeaderboardIntegrity ==
    (\A c \in Clients : game_pc[c] \in {"idle", "top"}) =>
        /\ board.st \in {"absent", "complete"}
        /\ BagOfSeq(board.entries) = ghost.added
        /\ Descending(board.entries)

====
